---- MODULE Spec2Model ----
(***************************************************************************)
(* LayeredRecorder (src/.mitmproxy/record_addon.py): a mitmproxy addon     *)
(* that logs request/response metadata, per-URL performance records and    *)
(* WebSocket messages in memory and writes them as JSON artifacts in       *)
(* done().                                                                 *)
(*                                                                         *)
(* Representation                                                          *)
(*   - datetime values are clock ticks (one tick = one second); the ISO    *)
(*     string of a datetime is [iso |-> t].                                *)
(*   - a byte string is [size, chars, valid]: its length in bytes, the     *)
(*     length of its decoded text, and whether strict decoding succeeds.   *)
(*   - a text string is [kind, len]; slicing only changes len.             *)
(*   - Python None is <<>> and a present optional value v is <<v>>; JSON   *)
(*     null is [null |-> TRUE] and a present JSON value v is [value |-> v].*)
(*   - headers and http_version are copied verbatim from the flow into the *)
(*     entries and are left out of the entries here.                       *)
(***************************************************************************)
EXTENDS Integers, Sequences, FiniteSets, TLC

\* ------------------------------------------------------------------ bounds
MaxCalls == 3      \* hook invocations in one session
MaxTime  == 1      \* clock ticks in one session

\* ------------------------------------------------------- program constants
PreviewCap   == 500
WsPreviewCap == 1000
MsPerSecond  == 1000

VARIABLES
    record_level,         \* self.record_level
    network_log,          \* self.network_log
    performance_metrics,  \* self.performance_metrics (dict keyed by URL)
    websocket_messages,   \* self.websocket_messages
    request_timestamps,   \* self.request_timestamps (dict keyed by flow id)
    disk,                 \* the four JSON artifacts in self.session_dir
    last_call,            \* the latest call on the recorder and its outcome
    calls,                \* number of hook invocations so far
    now,                  \* the clock read by datetime.now()
    flow_messages,        \* flow.messages of every flow (owned by the engine)
    level_at,             \* history: level in force when network_log[i] was appended
    arrival_level,        \* history: level in force when flow_messages[id][i] arrived
    done_streak,          \* history: successful done() calls in a row, up to the latest call
    done_frame            \* the running done() call: its position and its locals

vars == <<record_level, network_log, performance_metrics, websocket_messages,
          request_timestamps, disk, last_call, calls, now, flow_messages,
          level_at, arrival_level, done_streak, done_frame>>

stores == <<network_log, performance_metrics, websocket_messages, request_timestamps>>

\* ----------------------------------------------------------------- values
None    == <<>>
Some(v) == <<v>>

JsonNull     == [null |-> TRUE]
JsonValue(v) == [value |-> v]

Min(a, b) == IF a <= b THEN a ELSE b

Levels  == 1..4

\* Byte strings carried by requests, responses and WebSocket messages.
Bytes(n, c, ok) == [size |-> n, chars |-> c, valid |-> ok]
EmptyBody  == Bytes(0, 0, TRUE)
ShortBody  == Bytes(10, 10, TRUE)
LongBody   == Bytes(1200, 1200, TRUE)
BinaryBody == Bytes(16, 16, FALSE)

\* The flows the engine presents. Flows 1 and 2 request the same URL.
HttpRequest(method, url, content)  == [method |-> method, url |-> url, content |-> content]
HttpResponse(status_code, content) == [status_code |-> status_code, content |-> content]
FlowTable ==
    <<[id       |-> 1,
       request  |-> HttpRequest("GET", "http://example.com/", EmptyBody),
       response |-> HttpResponse(200, LongBody)],
      [id       |-> 2,
       request  |-> HttpRequest("POST", "http://example.com/", ShortBody),
       response |-> HttpResponse(404, BinaryBody)],
      [id       |-> 3,
       request  |-> HttpRequest("POST", "http://example.com/api", BinaryBody),
       response |-> HttpResponse(200, EmptyBody)]>>
FlowIds == DOMAIN FlowTable
Flow(id) == FlowTable[id]

\* The WebSocket messages the engine delivers.
WsMessage(from_client, content) == [from_client |-> from_client, content |-> content]
WsMessages == {WsMessage(TRUE, ShortBody), WsMessage(FALSE, LongBody)}

Text(n)        == [kind |-> "text", len |-> n]
BinarySentinel == [kind |-> "sentinel", len |-> 13]       \* "[binary data]"

\* datetime.isoformat()
Isoformat(t) == [iso |-> t]

SliceWhole(n, cap) == Text(n)

\* message.text[:cap] / bytes.decode(errors='replace')[:cap]
Slice(n, cap) == Text(Min(n, cap))

\* dict[key] = value
DictSet(d, k, v) == [x \in (DOMAIN d) \cup {k} |-> IF x = k THEN v ELSE d[x]]

LogLine(lvl, msg) == [level |-> lvl, msg |-> msg]

\* The outcome of a call: the lines it appended to recorder.log, the artifacts it
\* wrote completely (in order), whether it raised and on which artifact.
Returned(op, lines) ==
    [op |-> op, raised |-> FALSE, error |-> "none", logged |-> lines, written |-> <<>>]

\* ------------------------------------------------------------------- Init
Files == <<"network_activity", "performance_metrics", "websocket_messages", "session_summary">>

Absent       == [state |-> "absent"]
Truncated    == [state |-> "truncated"]
Written(doc) == [state |-> "written", doc |-> doc]

\* No done() call is running.
Idle == [pc |-> "idle", request_count |-> 0, response_count |-> 0, written |-> <<>>]

\* LayeredRecorder.__init__
Init ==
    /\ record_level \in Levels
    /\ network_log = <<>>
    /\ performance_metrics = <<>>
    /\ websocket_messages = <<>>
    /\ request_timestamps = <<>>
    /\ disk = [f \in {Files[i] : i \in 1..Len(Files)} |-> Absent]
    /\ last_call = Returned("__init__", <<LogLine("INFO", "LayeredRecorder initialized"),
                                          LogLine("INFO", "Session directory")>>)
    /\ calls = 0
    /\ now = 0
    /\ flow_messages = [id \in FlowIds |-> <<>>]
    /\ level_at = <<>>
    /\ arrival_level = [id \in FlowIds |-> <<>>]
    /\ done_streak = 0
    /\ done_frame = Idle

\* -------------------------------------------------------------- the clock
Tick ==
    /\ now < MaxTime
    /\ now' = now + 1
    /\ UNCHANGED <<record_level, network_log, performance_metrics, websocket_messages,
                   request_timestamps, disk, last_call, calls, flow_messages,
                   level_at, arrival_level, done_streak, done_frame>>

\* Every hook invocation is counted.
Invoke ==
    /\ calls < MaxCalls
    /\ calls' = calls + 1
    /\ now' = now

\* A call other than done() ends a run of done() calls.
Handler ==
    /\ Invoke
    /\ done_streak' = 0
    /\ done_frame' = done_frame

\* -------------------------------------------------------------- configure
\* Mutant of configure: lowering the level below 3 drops the performance records.
configure_resetting(updated, option) ==
    /\ Handler
    /\ IF "record_level" \in updated
         THEN /\ record_level' = option
              /\ last_call' = Returned("configure", <<LogLine("INFO", "Record level updated")>>)
         ELSE /\ record_level' = record_level
              /\ last_call' = Returned("configure", <<>>)
    /\ performance_metrics' = IF record_level' < 3 THEN <<>> ELSE performance_metrics
    /\ UNCHANGED <<network_log, websocket_messages,
                   request_timestamps, disk, flow_messages, level_at, arrival_level>>

configure(updated, option) ==
    /\ Handler
    /\ IF "record_level" \in updated
         THEN /\ record_level' = option
              /\ last_call' = Returned("configure", <<LogLine("INFO", "Record level updated")>>)
         ELSE /\ record_level' = record_level
              /\ last_call' = Returned("configure", <<>>)
    /\ UNCHANGED <<network_log, performance_metrics, websocket_messages,
                   request_timestamps, disk, flow_messages, level_at, arrival_level>>

\* ------------------------------------------------ Level 2+: body capture
\* Mutants of WithBody: the level is not consulted; the preview is not cut; an
\* undecodable body gets no sentinel.
WithBodyAtAnyLevel(entry, level, content) ==
    IF content.size > 0
      THEN entry @@ [body_size    |-> content.size,
                     body_preview |-> IF content.valid
                                        THEN Slice(content.chars, PreviewCap)
                                        ELSE BinarySentinel]
      ELSE entry

WithBodyNoSentinel(entry, level, content) ==
    IF level >= 2 /\ content.size > 0
      THEN entry @@ [body_size    |-> content.size,
                     body_preview |-> Slice(content.chars, PreviewCap)]
      ELSE entry

\* if self.record_level >= 2 and ... and content: body_size, body_preview
WithBody(entry, level, content) ==
    IF level >= 2 /\ content.size > 0
      THEN entry @@ [body_size    |-> content.size,
                     body_preview |-> IF content.valid
                                        THEN Slice(content.chars, PreviewCap)
                                        ELSE BinarySentinel]
      ELSE entry

\* --------------------------------------------------------- requestheaders
request_entry(flow, timestamp) ==
    [timestamp |-> Isoformat(timestamp),
     type      |-> "request",
     method    |-> flow.request.method,
     url       |-> flow.request.url,
     flow_id   |-> flow.id]

record_start_keep_first(timestamps, id, timestamp) ==
    IF id \in DOMAIN timestamps THEN timestamps ELSE DictSet(timestamps, id, timestamp)

record_start_single(timestamps, id, timestamp) == [x \in {id} |-> timestamp]

\* self.request_timestamps[flow.id] = timestamp
record_start(timestamps, id, timestamp) == DictSet(timestamps, id, timestamp)

requestheaders(flow) ==
    LET timestamp == now IN
    /\ Handler
    /\ request_timestamps' = record_start(request_timestamps, flow.id, timestamp)
    /\ network_log' = Append(network_log,
                             WithBody(request_entry(flow, timestamp), record_level,
                                      flow.request.content))
    /\ level_at' = Append(level_at, record_level)
    /\ last_call' = Returned("requestheaders", <<LogLine("DEBUG", "Request logged")>>)
    /\ UNCHANGED <<record_level, performance_metrics, websocket_messages, disk,
                   flow_messages, arrival_level>>

take_duration_fabricated(timestamps, id, timestamp) ==
    IF id \in DOMAIN timestamps
      THEN Some((timestamp - timestamps[id]) * MsPerSecond)
      ELSE Some(0)

\* --------------------------------------------------------------- response
\* duration_ms: None unless flow.id has a recorded start time
take_duration(timestamps, id, timestamp) ==
    IF id \in DOMAIN timestamps
      THEN Some((timestamp - timestamps[id]) * MsPerSecond)
      ELSE None

response_entry(flow, duration_ms, timestamp) ==
    [timestamp   |-> Isoformat(timestamp),
     type        |-> "response",
     status_code |-> flow.response.status_code,
     duration_ms |-> duration_ms,
     url         |-> flow.request.url,
     flow_id     |-> flow.id]

performance_record(flow, duration_ms, timestamp) ==
    [status             |-> flow.response.status_code,
     response_time_ms   |-> duration_ms,
     content_size_bytes |-> flow.response.content.size,
     request_method     |-> flow.request.method,
     timestamp          |-> Isoformat(timestamp)]

RecordPerformanceFirstWins(metrics, level, flow, duration_ms, timestamp) ==
    IF level >= 3 /\ flow.request.url \notin DOMAIN metrics
      THEN DictSet(metrics, flow.request.url, performance_record(flow, duration_ms, timestamp))
      ELSE metrics

\* Level 3+: self.performance_metrics[flow.request.url] = {...}
RecordPerformance(metrics, level, flow, duration_ms, timestamp) ==
    IF level >= 3
      THEN DictSet(metrics, flow.request.url, performance_record(flow, duration_ms, timestamp))
      ELSE metrics

response(flow) ==
    LET timestamp   == now
        duration_ms == take_duration(request_timestamps, flow.id, timestamp)
    IN
    /\ Handler
    /\ performance_metrics' = RecordPerformance(performance_metrics, record_level, flow,
                                                duration_ms, timestamp)
    /\ network_log' = Append(network_log,
                             WithBody(response_entry(flow, duration_ms, timestamp),
                                      record_level, flow.response.content))
    /\ level_at' = Append(level_at, record_level)
    /\ last_call' = Returned("response", <<LogLine("DEBUG", "Response logged")>>)
    /\ UNCHANGED <<record_level, websocket_messages, request_timestamps, disk,
                   flow_messages, arrival_level>>

\* ------------------------------------------------------ websocket_message
ws_entry(flow, message, timestamp) ==
    [timestamp |-> Isoformat(timestamp),
     type      |-> "websocket",
     direction |-> IF message.from_client THEN "client_to_server" ELSE "server_to_client",
     message   |-> Slice(message.content.chars, WsPreviewCap),
     flow_id   |-> flow.id,
     url       |-> flow.request.url]

\* for message in flow.messages: self.websocket_messages.append(ws_entry)
WsEntries(flow, messages, timestamp) ==
    [i \in 1..Len(messages) |-> ws_entry(flow, messages[i], timestamp)]

WsLogged(messages) ==
    [i \in 1..Len(messages) |-> LogLine("DEBUG", "WebSocket message logged")]

\* Mutant of websocket_message: the buffered messages are logged at every level.
websocket_message_ungated(flow, message) ==
    LET messages == Append(flow_messages[flow.id], message) IN
    /\ Handler
    /\ flow_messages' = [flow_messages EXCEPT ![flow.id] = messages]
    /\ arrival_level' = [arrival_level EXCEPT ![flow.id] = Append(@, record_level)]
    /\ websocket_messages' = websocket_messages \o WsEntries(flow, messages, now)
    /\ last_call' = Returned("websocket_message", WsLogged(messages))
    /\ UNCHANGED <<record_level, network_log, performance_metrics, request_timestamps,
                   disk, level_at>>

\* The engine appends the arriving message to flow.messages and then calls the hook.
websocket_message(flow, message) ==
    LET messages == Append(flow_messages[flow.id], message) IN
    /\ Handler
    /\ flow_messages' = [flow_messages EXCEPT ![flow.id] = messages]
    /\ arrival_level' = [arrival_level EXCEPT ![flow.id] = Append(@, record_level)]
    /\ IF record_level >= 4
         THEN /\ websocket_messages' = websocket_messages \o WsEntries(flow, messages, now)
              /\ last_call' = Returned("websocket_message", WsLogged(messages))
         ELSE /\ websocket_messages' = websocket_messages
              /\ last_call' = Returned("websocket_message", <<>>)
    /\ UNCHANGED <<record_level, network_log, performance_metrics, request_timestamps,
                   disk, level_at>>

\* ---------------------------------------------------------- websocket_end
websocket_end(flow) ==
    /\ Handler
    /\ last_call' = Returned("websocket_end",
                             IF record_level >= 4
                               THEN <<LogLine("INFO", "WebSocket connection ended")>>
                               ELSE <<>>)
    /\ UNCHANGED <<record_level, network_log, performance_metrics, websocket_messages,
                   request_timestamps, disk, flow_messages, level_at, arrival_level>>

\* ------------------------------------------------------------- json.dump
JsonOpt(o) == IF o = None THEN JsonNull ELSE JsonValue(o[1])

JsonEntry(e) ==
    IF "duration_ms" \in DOMAIN e
      THEN [e EXCEPT !.duration_ms = JsonOpt(e.duration_ms)]
      ELSE e

JsonLogReversed(log) == [i \in 1..Len(log) |-> JsonEntry(log[Len(log) + 1 - i])]

JsonLog(log) == [i \in 1..Len(log) |-> JsonEntry(log[i])]

JsonMetrics(metrics) ==
    [u \in DOMAIN metrics |->
        [metrics[u] EXCEPT !.response_time_ms = JsonOpt(metrics[u].response_time_ms)]]

\* ------------------------------------------------------------------- done
CountTypeAnyType(log, t) == Len(log)

CountType(log, t) == Cardinality({i \in 1..Len(log) : log[i].type = t})

PathOf(file) == JsonValue(file)

SessionSummaryAllPaths ==
    [session_id     |-> "session",
     record_level   |-> record_level,
     start_time     |-> IF network_log # <<>> THEN JsonValue(network_log[1].timestamp)
                                              ELSE JsonNull,
     end_time       |-> Isoformat(now),
     total_requests |-> CountType(network_log, "request"),
     total_responses |-> CountType(network_log, "response"),
     performance_metrics_count |-> Cardinality(DOMAIN performance_metrics),
     websocket_messages_count  |-> Len(websocket_messages),
     files |-> [network_activity    |-> PathOf("network_activity"),
                performance_metrics |-> PathOf("performance_metrics"),
                websocket_messages  |-> PathOf("websocket_messages"),
                recorder_log        |-> PathOf("recorder_log")]]

\* summary = {...} with the counts taken after the network log was saved
SummaryOf(request_count, response_count) ==
    [session_id     |-> "session",
     record_level   |-> record_level,
     start_time     |-> IF network_log # <<>> THEN JsonValue(network_log[1].timestamp)
                                              ELSE JsonNull,
     end_time       |-> Isoformat(now),
     total_requests |-> request_count,
     total_responses |-> response_count,
     performance_metrics_count |-> Cardinality(DOMAIN performance_metrics),
     websocket_messages_count  |-> Len(websocket_messages),
     files |-> [network_activity    |-> PathOf("network_activity"),
                performance_metrics |-> IF performance_metrics # <<>>
                                          THEN PathOf("performance_metrics") ELSE JsonNull,
                websocket_messages  |-> IF websocket_messages # <<>>
                                          THEN PathOf("websocket_messages") ELSE JsonNull,
                recorder_log        |-> PathOf("recorder_log")]]

SessionSummary ==
    SummaryOf(CountType(network_log, "request"), CountType(network_log, "response"))

\* The document done() dumps into each artifact.
Doc(file) ==
    CASE file = "network_activity"    -> JsonLog(network_log)
      [] file = "performance_metrics" -> JsonMetrics(performance_metrics)
      [] file = "websocket_messages"  -> websocket_messages
      [] file = "session_summary"     -> SessionSummary

WritePlanByLevel ==
    <<"network_activity">>
    \o (IF record_level >= 3 /\ CountType(network_log, "response") > 0
          THEN <<"performance_metrics">> ELSE <<>>)
    \o (IF websocket_messages # <<>> THEN <<"websocket_messages">> ELSE <<>>)
    \o <<"session_summary">>

\* The artifacts done() opens, in the order of the code.
WritePlan ==
    <<"network_activity">>
    \o (IF performance_metrics # <<>> THEN <<"performance_metrics">> ELSE <<>>)
    \o (IF websocket_messages # <<>> THEN <<"websocket_messages">> ELSE <<>>)
    \o <<"session_summary">>

\* The logger.info lines that follow the write of an artifact.
SavedLines(file) ==
    CASE file = "network_activity"    -> <<LogLine("INFO", "Network activity saved"),
                                           LogLine("INFO", "Total requests and responses")>>
      [] file = "performance_metrics" -> <<LogLine("INFO", "Performance metrics saved"),
                                           LogLine("INFO", "Performance entries")>>
      [] file = "websocket_messages"  -> <<LogLine("INFO", "WebSocket messages saved"),
                                           LogLine("INFO", "WebSocket entries")>>
      [] file = "session_summary"     -> <<LogLine("INFO", "Session summary saved"),
                                           LogLine("INFO", "session completed successfully")>>

RECURSIVE SavedLog(_)
SavedLog(files) ==
    IF files = <<>> THEN <<>> ELSE SavedLines(Head(files)) \o SavedLog(Tail(files))

\* An I/O failure: open(file, "w") raises (the file is untouched) or json.dump
\* raises after the file was opened for writing (the file is left truncated).
NoFailure == [file |-> "none", phase |-> "none"]
Failures(plan) ==
    {NoFailure} \cup [file : {plan[i] : i \in 1..Len(plan)}, phase : {"open", "write"}]

\* Index in the plan of the write that fails; Len(plan) + 1 when none does.
FailIndex(plan, fail) ==
    IF fail = NoFailure THEN Len(plan) + 1
    ELSE CHOOSE i \in 1..Len(plan) : plan[i] = fail.file

\* try: the writes, in order, up to the first failure.
\* except Exception: logger.error(...); raise
DoneOutcome(plan, fail) ==
    LET k       == FailIndex(plan, fail)
        written == SubSeq(plan, 1, k - 1)
        raised  == k <= Len(plan)
    IN [op      |-> "done",
        raised  |-> raised,
        error   |-> IF raised THEN plan[k] ELSE "none",
        logged  |-> <<LogLine("INFO", "Saving recorded data")>>
                    \o SavedLog(written)
                    \o (IF raised THEN <<LogLine("ERROR", "Error saving recorded data")>>
                                  ELSE <<>>),
        written |-> written]

\* Mutants of DoneDisk: a second write that appends to the artifact's earlier
\* content, and a failure that removes what the call has written.
DoneDiskAppending(plan, fail) ==
    LET k == FailIndex(plan, fail) IN
    [f \in DOMAIN disk |->
        IF \E i \in 1..(k - 1) : plan[i] = f
          THEN (IF f = "network_activity" /\ disk[f].state = "written"
                  THEN Written(disk[f].doc \o Doc(f))
                  ELSE Written(Doc(f)))
        ELSE IF k <= Len(plan) /\ plan[k] = f /\ fail.phase = "write" THEN Truncated
        ELSE disk[f]]

DoneDiskRollback(plan, fail) ==
    LET k == FailIndex(plan, fail) IN
    [f \in DOMAIN disk |->
        IF k <= Len(plan) THEN Absent
        ELSE IF \E i \in 1..(k - 1) : plan[i] = f THEN Written(Doc(f))
        ELSE disk[f]]

DoneDisk(plan, fail) ==
    LET k == FailIndex(plan, fail) IN
    [f \in DOMAIN disk |->
        IF \E i \in 1..(k - 1) : plan[i] = f THEN Written(Doc(f))
        ELSE IF k <= Len(plan) /\ plan[k] = f /\ fail.phase = "write" THEN Truncated
        ELSE disk[f]]

\* Mutant of done: the generic log is emptied once it has been saved.
done_clearing(fail) ==
    /\ Invoke
    /\ fail \in Failures(WritePlan)
    /\ disk' = DoneDisk(WritePlan, fail)
    /\ last_call' = DoneOutcome(WritePlan, fail)
    /\ done_streak' = IF last_call'.raised THEN 0 ELSE done_streak + 1
    /\ network_log' = IF last_call'.raised THEN network_log ELSE <<>>
    /\ level_at' = IF last_call'.raised THEN level_at ELSE <<>>
    /\ UNCHANGED <<record_level, performance_metrics, websocket_messages,
                   request_timestamps, flow_messages, arrival_level, done_frame>>

\* try: the four writes in order; except Exception: log the error and re-raise
done(fail) ==
    /\ Invoke
    /\ fail \in Failures(WritePlan)
    /\ disk' = DoneDisk(WritePlan, fail)
    /\ last_call' = DoneOutcome(WritePlan, fail)
    /\ done_streak' = IF last_call'.raised THEN 0 ELSE done_streak + 1
    /\ UNCHANGED <<record_level, network_log, performance_metrics, websocket_messages,
                   request_timestamps, flow_messages, level_at, arrival_level, done_frame>>

\* ------------------------------------------------------------------- Next
Next ==
    \/ Tick
    \/ \E updated \in {{}, {"record_level"}}, option \in Levels : configure(updated, option)
    \/ \E id \in FlowIds : requestheaders(Flow(id))
    \/ \E id \in FlowIds : response(Flow(id))
    \/ \E id \in FlowIds, message \in WsMessages : websocket_message(Flow(id), message)
    \/ \E id \in FlowIds : websocket_end(Flow(id))
    \/ \E file \in {"none"} \cup {Files[i] : i \in 1..Len(Files)},
          phase \in {"none", "open", "write"} :
           done([file |-> file, phase |-> phase])

Spec == Init /\ [][Next]_vars

\* ------------------------------------- done() statement by statement
\* A host that dispatches hooks from several threads: done() runs on its own
\* thread and the handlers may run between any two of its statements. The
\* recorder takes no lock, so nothing below waits for a handler or makes one wait.
FrameOutcome(written, error) ==
    [op      |-> "done",
     raised  |-> error # "none",
     error   |-> error,
     logged  |-> <<LogLine("INFO", "Saving recorded data")>>
                 \o SavedLog(written)
                 \o (IF error # "none" THEN <<LogLine("ERROR", "Error saving recorded data")>>
                                       ELSE <<>>),
     written |-> written]

DoneThread ==
    UNCHANGED <<record_level, network_log, performance_metrics, websocket_messages,
                request_timestamps, now, flow_messages, level_at, arrival_level>>

\* self.logger.info("Saving recorded data...")
done_begin ==
    /\ done_frame.pc = "idle"
    /\ calls < MaxCalls
    /\ calls' = calls + 1
    /\ done_frame' = [Idle EXCEPT !.pc = "network"]
    /\ UNCHANGED <<disk, last_call, done_streak>>
    /\ DoneThread

\* with open(file, "w") as f: json.dump(doc, f): the write succeeds and done()
\* goes on, or open / json.dump raises and the except clause logs and re-raises.
WriteStep(file, doc, next, phase) ==
    IF phase = "none"
      THEN /\ disk' = [disk EXCEPT ![file] = Written(doc)]
           /\ done_frame' = [done_frame EXCEPT !.pc = next,
                                               !.written = Append(@, file)]
           /\ UNCHANGED <<last_call, done_streak>>
      ELSE /\ disk' = IF phase = "write" THEN [disk EXCEPT ![file] = Truncated] ELSE disk
           /\ last_call' = FrameOutcome(done_frame.written, file)
           /\ done_streak' = 0
           /\ done_frame' = Idle

done_network(phase) ==
    /\ done_frame.pc = "network"
    /\ WriteStep("network_activity", JsonLog(network_log), "count", phase)
    /\ UNCHANGED calls
    /\ DoneThread

\* request_count = len([...]); response_count = len([...])
done_count ==
    /\ done_frame.pc = "count"
    /\ done_frame' = [done_frame EXCEPT !.pc = "performance",
                                        !.request_count = CountType(network_log, "request"),
                                        !.response_count = CountType(network_log, "response")]
    /\ UNCHANGED <<disk, last_call, done_streak, calls>>
    /\ DoneThread

\* if self.performance_metrics: ...
done_performance(phase) ==
    /\ done_frame.pc = "performance"
    /\ IF performance_metrics # <<>>
         THEN WriteStep("performance_metrics", JsonMetrics(performance_metrics),
                        "websocket", phase)
         ELSE /\ phase = "none"
              /\ done_frame' = [done_frame EXCEPT !.pc = "websocket"]
              /\ UNCHANGED <<disk, last_call, done_streak>>
    /\ UNCHANGED calls
    /\ DoneThread

\* if self.websocket_messages: ...
done_websocket(phase) ==
    /\ done_frame.pc = "websocket"
    /\ IF websocket_messages # <<>>
         THEN WriteStep("websocket_messages", websocket_messages, "summary", phase)
         ELSE /\ phase = "none"
              /\ done_frame' = [done_frame EXCEPT !.pc = "summary"]
              /\ UNCHANGED <<disk, last_call, done_streak>>
    /\ UNCHANGED calls
    /\ DoneThread

\* summary = {...}; json.dump(summary, f); done() returns
done_summary(phase) ==
    /\ done_frame.pc = "summary"
    /\ IF phase = "none"
         THEN /\ disk' = [disk EXCEPT !["session_summary"] =
                             Written(SummaryOf(done_frame.request_count,
                                               done_frame.response_count))]
              /\ last_call' = FrameOutcome(Append(done_frame.written, "session_summary"),
                                           "none")
              /\ done_streak' = done_streak + 1
              /\ done_frame' = Idle
         ELSE WriteStep("session_summary", <<>>, "idle", phase)
    /\ UNCHANGED calls
    /\ DoneThread

NextThreaded ==
    \/ Tick
    \/ \E updated \in {{}, {"record_level"}}, option \in Levels : configure(updated, option)
    \/ \E id \in FlowIds : requestheaders(Flow(id))
    \/ \E id \in FlowIds : response(Flow(id))
    \/ \E id \in FlowIds, message \in WsMessages : websocket_message(Flow(id), message)
    \/ \E id \in FlowIds : websocket_end(Flow(id))
    \/ done_begin
    \/ \E phase \in {"none", "open", "write"} : done_network(phase)
    \/ done_count
    \/ \E phase \in {"none", "open", "write"} : done_performance(phase)
    \/ \E phase \in {"none", "open", "write"} : done_websocket(phase)
    \/ \E phase \in {"none", "open", "write"} : done_summary(phase)

SpecThreaded == Init /\ [][NextThreaded]_vars

TypeOK ==
    /\ record_level \in Levels
    /\ calls \in 0..MaxCalls
    /\ now \in 0..MaxTime
    /\ Len(level_at) = Len(network_log)
    /\ \A id \in FlowIds : Len(arrival_level[id]) = Len(flow_messages[id])
\* ------------------------------------------------------ shared vocabulary
Range(seq) == {seq[i] : i \in 1..Len(seq)}
Max(S) == CHOOSE x \in S : \A y \in S : y <= x

DoneOk     == last_call.op = "done" /\ ~last_call.raised
DoneRaised == last_call.op = "done" /\ last_call.raised

Requests  == {i \in 1..Len(network_log) : network_log[i].type = "request"}
Responses == {i \in 1..Len(network_log) : network_log[i].type = "response"}

Summary == disk["session_summary"].doc

\* ----------------------------------------------------------------- claims

\* C1: after a successful done(), the summary's total_requests is the number of
\* 'request' entries of the generic log and total_responses the number of
\* 'response' entries.
C1_SummaryCounts ==
    DoneOk =>
        /\ disk["session_summary"].state = "written"
        /\ Summary.total_requests = Cardinality(Requests)
        /\ Summary.total_responses = Cardinality(Responses)

C1_Witness ==
    /\ DoneOk
    /\ Cardinality(Requests) = 2
    /\ Cardinality(Responses) = 0
    /\ Summary.total_requests = 2

\* C2: a response entry's duration is response time minus the time stamped by the
\* most recent requestheaders of the same flow id, and is non-negative; with no
\* earlier requestheaders for the flow id it is None and the entry is still appended.
PriorRequests(i) ==
    {j \in Requests : j < i /\ network_log[j].flow_id = network_log[i].flow_id}

C2_Duration ==
    \A i \in Responses :
        IF PriorRequests(i) = {}
          THEN network_log[i].duration_ms = None
          ELSE LET start == network_log[Max(PriorRequests(i))].timestamp.iso
                   end   == network_log[i].timestamp.iso
               IN /\ network_log[i].duration_ms = Some((end - start) * MsPerSecond)
                  /\ network_log[i].duration_ms[1] >= 0

C2_Witness ==
    \E i \in Responses :
        /\ Cardinality(PriorRequests(i)) = 2
        /\ \E j, k \in PriorRequests(i) : network_log[j].timestamp # network_log[k].timestamp
        /\ network_log[i].duration_ms = Some(0)

\* C3: the performance mapping has at most as many keys as distinct URLs responded
\* to, and each key holds the record of the latest response for that URL that was
\* processed at level >= 3.
ResponsesAt3(url) ==
    {i \in Responses : network_log[i].url = url /\ level_at[i] >= 3}

C3_LastWriteWins ==
    /\ Cardinality(DOMAIN performance_metrics)
         <= Cardinality({network_log[i].url : i \in Responses})
    /\ \A url \in DOMAIN performance_metrics :
        /\ ResponsesAt3(url) # {}
        /\ LET e == network_log[Max(ResponsesAt3(url))]
               r == performance_metrics[url]
           IN /\ r.status = e.status_code
              /\ r.response_time_ms = e.duration_ms
              /\ r.request_method = Flow(e.flow_id).request.method
              /\ r.timestamp = e.timestamp

C3_Witness ==
    \E url \in DOMAIN performance_metrics :
        \E i, j \in ResponsesAt3(url) :
            /\ i < j
            /\ network_log[i].status_code # network_log[j].status_code
            /\ performance_metrics[url].status = network_log[j].status_code

\* C4: a successful done() writes the summary after every other artifact of the
\* call, and the summary's performance_metrics / websocket_messages reference is
\* non-null exactly when the call wrote that artifact.
C4_SummaryLast ==
    DoneOk =>
        LET written == last_call.written IN
        /\ written # <<>>
        /\ written[Len(written)] = "session_summary"
        /\ \A i \in 1..(Len(written) - 1) : written[i] # "session_summary"
        /\ disk["session_summary"].state = "written"
        /\ (Summary.files.performance_metrics # JsonNull)
             <=> ("performance_metrics" \in Range(written))
        /\ (Summary.files.websocket_messages # JsonNull)
             <=> ("websocket_messages" \in Range(written))

C4_Witness ==
    /\ DoneOk
    /\ "performance_metrics" \in Range(last_call.written)
    /\ "websocket_messages" \notin Range(last_call.written)
    /\ Summary.files.performance_metrics = PathOf("performance_metrics")
    /\ Summary.files.websocket_messages = JsonNull

\* C5 (as stated): after done(), performance_metrics.json is present iff the level
\* is >= 3 and at least one response was recorded.
C5_PresentIffLevelNow ==
    DoneOk =>
        ((disk["performance_metrics"].state # "absent")
            <=> (record_level >= 3 /\ Responses # {}))

\* C5 (amended): after a successful done(), performance_metrics.json is present iff
\* at least one response was processed while the level was >= 3, whatever the level
\* is when done() runs.
C5_PresentIffRecordedAt3 ==
    DoneOk =>
        /\ (disk["performance_metrics"].state = "written")
             <=> (\E i \in Responses : level_at[i] >= 3)
        /\ disk["performance_metrics"].state \in {"written", "absent"}

C5_Witness ==
    /\ DoneOk
    /\ record_level < 3
    /\ disk["performance_metrics"].state = "written"

\* C6 (as stated): when every message of a flow arrived at level 4, the stream log
\* holds exactly one entry per message of the flow, in arrival order and with the
\* message's direction, and a summary written then counts exactly the messages.
StreamEntries(id) ==
    LET OfFlow(e) == e.flow_id = id IN SelectSeq(websocket_messages, OfFlow)

AllAtLevel4(id) ==
    \A i \in 1..Len(arrival_level[id]) : arrival_level[id][i] = 4

RECURSIVE Delivered(_)
Delivered(ids) ==
    IF ids = {} THEN 0
    ELSE LET id == CHOOSE x \in ids : TRUE
         IN Len(flow_messages[id]) + Delivered(ids \ {id})

C6_OneEntryPerMessage ==
    /\ \A id \in FlowIds :
         AllAtLevel4(id) =>
            /\ Len(StreamEntries(id)) = Len(flow_messages[id])
            /\ \A i \in 1..Len(flow_messages[id]) :
                 i <= Len(StreamEntries(id)) =>
                    StreamEntries(id)[i].direction =
                        (IF flow_messages[id][i].from_client THEN "client_to_server"
                                                             ELSE "server_to_client")
    /\ (DoneOk /\ \A id \in FlowIds : AllAtLevel4(id)) =>
            Summary.websocket_messages_count = Delivered(FlowIds)

\* C7 (as stated): a second successful done() directly after a successful done()
\* leaves every artifact with the content the first call gave it.
C7_SecondDoneIdentical ==
    [][(done_streak' >= 2 /\ calls' = calls + 1) => disk' = disk]_vars

\* C7 (amended): a second successful done() directly after a successful done()
\* writes the same artifacts as the first call, each with the same content, except
\* that the summary's end_time is the time of the second call.
C7_SecondDoneSameButEndTime ==
    [][(done_streak' >= 2 /\ calls' = calls + 1) =>
         /\ last_call'.written = last_call.written
         /\ \A f \in DOMAIN disk : f # "session_summary" => disk'[f] = disk[f]
         /\ disk'["session_summary"].state = "written"
         /\ disk'["session_summary"].doc.end_time = Isoformat(now')
         /\ disk'["session_summary"].doc =
               [disk["session_summary"].doc EXCEPT !.end_time = Isoformat(now')]]_vars

C7_Witness ==
    /\ done_streak = 2
    /\ network_log # <<>>
    /\ disk["network_activity"].state = "written"
    /\ Summary.end_time # Summary.start_time.value

\* C8 (as stated): done() raises only when the write of network_activity.json
\* fails; a failing write of the performance or streaming artifact neither raises
\* nor keeps the summary from being written.
C8_OnlyMandatoryWriteRaises ==
    last_call.op = "done" =>
        /\ last_call.raised => last_call.error = "network_activity"
        /\ last_call.error \in {"performance_metrics", "websocket_messages"}
             => "session_summary" \in Range(last_call.written)

\* C9 (as stated): when the write of network_activity.json fails, done() logs the
\* error and then raises, tries once, writes no later artifact, and leaves every
\* artifact already on disk as it was.
NetworkWriteFailed ==
    /\ calls' = calls + 1
    /\ last_call'.op = "done"
    /\ last_call'.error = "network_activity"

LoggedThenRaised(call) ==
    /\ call.raised
    /\ call.written = <<>>
    /\ call.logged = <<LogLine("INFO", "Saving recorded data"),
                       LogLine("ERROR", "Error saving recorded data")>>

C9_FailureLeavesDiskAsIs ==
    [][NetworkWriteFailed =>
         /\ LoggedThenRaised(last_call')
         /\ \A f \in DOMAIN disk : disk[f].state # "absent" => disk'[f] = disk[f]]_vars

\* C9 (amended): when the write of network_activity.json fails, done() logs the
\* error and then raises, tries once and writes no later artifact; the other
\* artifacts on disk are left as they were, and network_activity.json is either
\* left as it was (open failed) or left truncated (the dump failed after open).
C9_FailureLeavesOthersAsIs ==
    [][NetworkWriteFailed =>
         /\ LoggedThenRaised(last_call')
         /\ \A f \in DOMAIN disk : f # "network_activity" => disk'[f] = disk[f]
         /\ disk'["network_activity"] \in {disk["network_activity"], Truncated}]_vars

C9_Witness ==
    /\ DoneRaised
    /\ last_call.error = "network_activity"
    /\ disk["network_activity"] = Truncated
    /\ disk["session_summary"].state = "written"

\* C10: requestheaders and response append exactly one entry at the end of the
\* generic log, no step removes, reorders or rewrites an entry, and a successful
\* done() writes the log's entries to network_activity.json in the log's order.
IsPrefix(s, t) == Len(s) <= Len(t) /\ \A i \in 1..Len(s) : s[i] = t[i]

SameEntry(json, e) ==
    /\ DOMAIN json = DOMAIN e
    /\ \A k \in (DOMAIN e) \ {"duration_ms"} : json[k] = e[k]
    /\ "duration_ms" \in DOMAIN e =>
         IF e.duration_ms = None THEN json.duration_ms = JsonNull
                                 ELSE json.duration_ms = JsonValue(e.duration_ms[1])

C10_AppendOnlyInOrder ==
    [][/\ IsPrefix(network_log, network_log')
       /\ IF calls' = calls + 1 /\ last_call'.op \in {"requestheaders", "response"}
            THEN /\ Len(network_log') = Len(network_log) + 1
                 /\ network_log'[Len(network_log')].timestamp = Isoformat(now)
                 /\ (network_log'[Len(network_log')].type = "request")
                       <=> (last_call'.op = "requestheaders")
                 /\ (network_log'[Len(network_log')].type = "response")
                       <=> (last_call'.op = "response")
            ELSE network_log' = network_log
       /\ (calls' = calls + 1 /\ last_call'.op = "done" /\ ~last_call'.raised) =>
            /\ disk'["network_activity"].state = "written"
            /\ Len(disk'["network_activity"].doc) = Len(network_log)
            /\ \A i \in 1..Len(network_log) :
                 SameEntry(disk'["network_activity"].doc[i], network_log[i])]_vars

C10_Witness ==
    /\ DoneOk
    /\ Len(network_log) = 2
    /\ network_log[1].flow_id # network_log[2].flow_id
    /\ network_log[1].type = "request"
    /\ network_log[2].type = "request"
    /\ Len(disk["network_activity"].doc) = 2

\* C11: an entry captured while the level was below 2 has neither a body_size nor
\* a body_preview field, in the generic log and in the network_activity.json a
\* successful done() writes.
HasBodyField(e) == "body_size" \in DOMAIN e \/ "body_preview" \in DOMAIN e

\* The content the flow of entry e carried for e's message.
SourceContent(e) ==
    IF e.type = "request" THEN Flow(e.flow_id).request.content
                          ELSE Flow(e.flow_id).response.content

C11_NoBodyBelow2 ==
    /\ \A i \in 1..Len(network_log) : level_at[i] < 2 => ~HasBodyField(network_log[i])
    /\ DoneOk =>
         /\ Len(disk["network_activity"].doc) = Len(network_log)
         /\ \A i \in 1..Len(network_log) :
              level_at[i] < 2 => ~HasBodyField(disk["network_activity"].doc[i])

C11_Witness ==
    /\ DoneOk
    /\ Len(network_log) = 2
    /\ \A i \in 1..2 : level_at[i] = 1 /\ SourceContent(network_log[i]).size > 0
    /\ network_log[1].type = "request"
    /\ network_log[2].type = "response"
    /\ ~HasBodyField(disk["network_activity"].doc[2])

\* C12: configure changes nothing but the level (the four stores keep their
\* content), and every event processed afterwards is gated by the level then in
\* force: body fields iff level >= 2 (for a non-empty body), a performance record
\* iff level >= 3, stream entries iff level >= 4.
Called(op) == calls' = calls + 1 /\ last_call'.op = op

NewEntry == network_log'[Len(network_log')]

C12_ConfigureOnlyLevel ==
    [][/\ Called("configure") =>
            /\ stores' = stores
            /\ disk' = disk
       /\ (Called("requestheaders") \/ Called("response")) =>
            /\ Len(network_log') = Len(network_log) + 1
            /\ SourceContent(NewEntry).size > 0 =>
                 (HasBodyField(NewEntry) <=> record_level >= 2)
       /\ Called("response") =>
            IF record_level >= 3
              THEN /\ NewEntry.url \in DOMAIN performance_metrics'
                   /\ performance_metrics'[NewEntry.url].timestamp = NewEntry.timestamp
                   /\ performance_metrics'[NewEntry.url].status = NewEntry.status_code
              ELSE performance_metrics' = performance_metrics
       /\ Called("websocket_message") =>
            IF record_level >= 4
              THEN Len(websocket_messages') > Len(websocket_messages)
              ELSE websocket_messages' = websocket_messages]_vars

C12_Witness ==
    /\ Len(network_log) = 2
    /\ level_at[1] >= 3
    /\ level_at[2] = 1
    /\ network_log[1].type = "response"
    /\ network_log[2].type = "response"
    /\ network_log[1].url = network_log[2].url
    /\ HasBodyField(network_log[1])
    /\ SourceContent(network_log[2]).size > 0 /\ ~HasBodyField(network_log[2])
    /\ performance_metrics[network_log[1].url].status = network_log[1].status_code
    /\ network_log[1].status_code # network_log[2].status_code

\* C13: an entry captured at level >= 2 from a non-empty body carries body_size
\* equal to the body's length and a preview (or the binary-data sentinel) of at
\* most 500 characters; the text of every stream entry has at most 1000 characters.
C13_PreviewCaps ==
    /\ \A i \in 1..Len(network_log) :
         (level_at[i] >= 2 /\ SourceContent(network_log[i]).size > 0) =>
            /\ "body_size" \in DOMAIN network_log[i]
            /\ "body_preview" \in DOMAIN network_log[i]
            /\ network_log[i].body_size = SourceContent(network_log[i]).size
            /\ network_log[i].body_preview.len <= 500
    /\ \A i \in 1..Len(websocket_messages) : websocket_messages[i].message.len <= 1000

C13_Witness ==
    /\ \E i \in 1..Len(network_log) :
         /\ level_at[i] >= 2
         /\ SourceContent(network_log[i]).chars > 500
         /\ HasBodyField(network_log[i])
         /\ network_log[i].body_size = 1200
         /\ network_log[i].body_preview = Text(500)
    /\ \E i \in 1..Len(network_log) :
         /\ level_at[i] >= 2
         /\ HasBodyField(network_log[i])
         /\ network_log[i].body_preview = BinarySentinel
    /\ \E i \in 1..Len(websocket_messages) : websocket_messages[i].message = Text(1000)

\* C14 (as stated): when handlers run between the statements of done(), the
\* artifacts of a successful done() still describe one snapshot: the summary's
\* total_requests + total_responses is the number of entries of the
\* network_activity.json the same call wrote.
C14_OneSnapshot ==
    (DoneOk /\ done_frame.pc = "idle") =>
        /\ disk["network_activity"].state = "written"
        /\ Summary.total_requests + Summary.total_responses
             = Len(disk["network_activity"].doc)

\* C15: at every level a requestheaders event appends exactly one 'request'
\* entry and a response event exactly one 'response' entry for its flow, also
\* when the body cannot be decoded as text: the handler returns normally, the
\* entries already in the log stay as they were, and at level >= 2 the preview of
\* an undecodable body is the binary-data sentinel.
C15_OneEntryPerEvent ==
    [][\A t \in {"requestheaders", "response"} :
         Called(t) =>
            /\ ~last_call'.raised
            /\ Len(network_log') = Len(network_log) + 1
            /\ IsPrefix(network_log, network_log')
            /\ NewEntry.type = (IF t = "requestheaders" THEN "request" ELSE "response")
            /\ (record_level >= 2 /\ ~SourceContent(NewEntry).valid) =>
                 /\ HasBodyField(NewEntry)
                 /\ NewEntry.body_size = SourceContent(NewEntry).size
                 /\ NewEntry.body_preview = BinarySentinel]_vars

C15_Witness ==
    /\ Len(network_log) = 3
    /\ network_log[1].type = "request" /\ network_log[1].flow_id = 1
    /\ network_log[2].type = "request" /\ network_log[2].flow_id = 3
    /\ network_log[3].type = "response" /\ network_log[3].flow_id = 2
    /\ ~HasBodyField(network_log[1])
    /\ \A i \in {2, 3} : /\ level_at[i] >= 2
                         /\ ~SourceContent(network_log[i]).valid
                         /\ HasBodyField(network_log[i])
                         /\ network_log[i].body_preview = BinarySentinel

\* C16: the timestamp table maps a flow id to one start time; requestheaders
\* sets the entry of its own flow id to the current time, whether or not one was
\* there, and leaves every other entry alone; every other operation, response
\* included, leaves the table unchanged, so no entry is ever evicted and each
\* response of a flow is measured against the start time stored at that moment.
C16_TimestampTable ==
    [][/\ DOMAIN request_timestamps \subseteq DOMAIN request_timestamps'
       /\ \A id \in FlowIds :
            (Called("requestheaders") /\ NewEntry.flow_id = id) =>
               /\ Len(network_log') = Len(network_log) + 1
               /\ request_timestamps' = DictSet(request_timestamps, id, now)
       /\ ~Called("requestheaders") => request_timestamps' = request_timestamps
       /\ (Called("response") /\ NewEntry.flow_id \in DOMAIN request_timestamps) =>
            NewEntry.duration_ms =
               Some((now - request_timestamps[NewEntry.flow_id]) * MsPerSecond)]_vars

C16_Witness ==
    /\ now = 1
    /\ Len(network_log) = 3
    /\ network_log[1].type = "request"
    /\ \A i \in {2, 3} : /\ network_log[i].type = "response"
                         /\ network_log[i].flow_id = network_log[1].flow_id
    /\ network_log[2].duration_ms = Some(0)
    /\ network_log[3].duration_ms = Some(1000)
    /\ request_timestamps = [x \in {network_log[1].flow_id} |-> 0]

\* C17: websocket_end leaves the timestamp table, the generic log, the
\* performance mapping and the stream log unchanged at every level;
\* websocket_message leaves all four unchanged below level 4, and at level 4 it
\* changes the stream log only.
C17_StreamHandlersFrame ==
    [][/\ Called("websocket_end") => stores' = stores
       /\ Called("websocket_message") =>
            /\ network_log' = network_log
            /\ performance_metrics' = performance_metrics
            /\ request_timestamps' = request_timestamps
            /\ record_level < 4 => websocket_messages' = websocket_messages]_vars

\* After a response recorded at level 3 (log, performance mapping and timestamp
\* table in use), a stream message arrived below level 4 and the stream ended:
\* the stream log is still empty and the other stores hold what the response left.
C17_Witness ==
    /\ last_call.op = "websocket_end"
    /\ record_level = 3
    /\ Len(network_log) = 1
    /\ DOMAIN performance_metrics # {}
    /\ websocket_messages = <<>>
    /\ \E id \in FlowIds : /\ Len(flow_messages[id]) = 1
                           /\ arrival_level[id][1] = 3

\* C18: between handler calls, every 'response' entry of the generic log with a
\* duration other than null has a 'request' entry of the same flow id before it,
\* and the flow ids of the timestamp table are exactly the flow ids of the
\* 'request' entries of the log.
C18_DurationHasRequest ==
    /\ \A i \in Responses :
         network_log[i].duration_ms # None => PriorRequests(i) # {}
    /\ DOMAIN request_timestamps = {network_log[i].flow_id : i \in Requests}

C18_Witness ==
    /\ Len(network_log) = 3
    /\ network_log[1].type = "response" /\ network_log[1].duration_ms = None
    /\ network_log[2].type = "request"
    /\ network_log[3].type = "response" /\ network_log[3].duration_ms # None
    /\ \A i \in 1..3 : network_log[i].flow_id = network_log[1].flow_id
    /\ DOMAIN request_timestamps = {network_log[1].flow_id}

\* C19: done() only reads the in-memory state: whether it returns or raises, the
\* generic log, the performance mapping, the stream log, the timestamp table and
\* the level are after the call what they were before it; a done() that returns
\* has written the whole generic log, the entries recorded before an earlier
\* done() included.
C19_DoneReadsOnly ==
    [][Called("done") =>
         /\ stores' = stores
         /\ record_level' = record_level
         /\ ~last_call'.raised =>
              disk'["network_activity"] = Written(JsonLog(network_log))]_vars

\* A done() saved a log of one entry, then a further event was recorded on top
\* of it.
C19_Witness ==
    /\ last_call.op = "requestheaders"
    /\ Len(network_log) = 2
    /\ disk["network_activity"] = Written(JsonLog(SubSeq(network_log, 1, 1)))
    /\ disk["session_summary"].state = "written"
    /\ DOMAIN performance_metrics # {}
====
